---- MODULE Spec2Model ----
(***************************************************************************)
(* Model of the MotorController of src/src/motor-control.js: a browser     *)
(* control panel that keeps a MotorState, mirrors it to an MQTT broker     *)
(* through a Paho client handle and renders a status indicator and a log.  *)
(*                                                                         *)
(* Every action is one event handler (a UI listener or a Paho callback)    *)
(* run to completion, as the page's single thread runs it.                 *)
(*                                                                         *)
(* Strings the code builds from pieces (template literals) are modelled    *)
(* as the sequence of their pieces; a broker URL is the sequence           *)
(* <<scheme, host, port>> of its text.                                     *)
(***************************************************************************)
EXTENDS Integers, Sequences, FiniteSets, TLC

\* ------------------------------------------------------------------ bounds

\* Number of Paho client handles that can be open at once.
MaxSessions == 2
\* Spec stops starting handlers once the log pane holds this many entries
\* (clearLog makes room again).
MaxLog == 2
\* The same for SpecConnect and for SpecMotor.
MaxConnectLog == 3
MaxMotorLog == 3

\* ------------------------------------------------------- program constants

\* addLogEntry: "Keep only last 50 log entries".
LogCap == 50
\* Math.max(0, Math.min(100, speed)).
SpeedMin == 0
SpeedMax == 100
\* Default ports of the three schemes.
WsPort == 8000
WssPort == 8884
MqttPort == 1883

\* this.topics, in the order Object.values() enumerates it.
Topics == <<"akuri/motor/control", "akuri/motor/status", "akuri/motor/log">>
MotorTopic == Topics[1]
StatusTopic == Topics[2]
LogTopic == Topics[3]
TopicSet == {Topics[i] : i \in 1..Len(Topics)}

\* --------------------------------------------------------------- inputs

NullClient == 0
SessionIds == 1..MaxSessions

\* Values the speed slider listener can pass to setSpeed.
SpeedInputs == {-1, 0, 37, 100, 101}

\* url.port of a URL that names no port.
NoPort == ""
\* Texts of the broker URL field: <<scheme, host, port>>, <<>> is the empty
\* text and " " is white space.
BrokerUrls ==
    { <<>>, <<" ">>,
      <<"ws://", "broker", "9001">>, <<"wss://", "broker", NoPort>>,
      <<"mqtt://", "broker", NoPort>>, <<"http://", "broker", NoPort>>,
      <<"tcp://", "broker", "1883">>, <<"ws://">> }
\* Texts of the client ID field.
ClientIds == { <<>>, <<" ">>, <<"web-1">> }

\* Payload strings a broker can deliver.
Payloads == { "{\"message\":\"ok\"}", "{\"isOn\":true}", "null", "not json" }

\* errorMessage of a Paho response object: a text the library chooses.
ErrorMessage == "<errorMessage>"

VARIABLES
    client,       \* this.client: NullClient or a session handle
    isConnected,  \* this.isConnected
    motorState,   \* this.motorState
    status,       \* statusIndicator's 'connected' class and statusText
    ui,           \* what updateUI last rendered
    log,          \* the .log-entry children of statusLog, oldest first
    sessions,     \* state of each Paho client handle
    subs,         \* state of each handle's subscription to each topic
    calls,        \* Paho calls issued by the most recent handler, in order
    uncaught,     \* the most recent handler ended by an exception escaping it
    pahoLoaded    \* typeof Paho !== 'undefined'

vars == <<client, isConnected, motorState, status, ui, log, sessions, subs,
          calls, uncaught, pahoLoaded>>

\* ------------------------------------------------------------ pure helpers

\* String.prototype.trim on a text given as its pieces.
RECURSIVE TrimLeft(_)
TrimLeft(s) == IF s # <<>> /\ Head(s) = " " THEN TrimLeft(Tail(s)) ELSE s
RECURSIVE TrimRight(_)
TrimRight(s) ==
    IF s # <<>> /\ s[Len(s)] = " " THEN TrimRight(SubSeq(s, 1, Len(s) - 1)) ELSE s
Trim(s) == TrimRight(TrimLeft(s))

\* Mutant of Clamp: the lower bound forgotten.
ClampUpperOnly(speed) == IF speed > 100 THEN 100 ELSE speed

\* Math.max(0, Math.min(100, speed)).
Min(a, b) == IF a < b THEN a ELSE b
Max(a, b) == IF a > b THEN a ELSE b
Clamp(speed) == Max(SpeedMin, Min(SpeedMax, speed))

\* Mutant of FlipDirection: the two branches give the same value.
FlipDirectionStuck(d) == IF d = "forward" THEN "reverse" ELSE "reverse"

\* this.motorState.direction === 'forward' ? 'reverse' : 'forward'.
FlipDirection(d) == IF d = "forward" THEN "reverse" ELSE "forward"

\* String.prototype.toUpperCase on the two direction names.
ToUpperCase(d) == IF d = "forward" THEN "FORWARD" ELSE
                  IF d = "reverse" THEN "REVERSE" ELSE d

\* updateUI: the texts it writes from motorState and isConnected.
UpdateUI(ms, conn) ==
    [ speedValue      |-> ms.speed,
      speedSlider     |-> ms.speed,
      powerButton     |-> IF ms.isOn THEN "Turn Off" ELSE "Turn On",
      powerStatus     |-> IF ms.isOn THEN "Motor: ON" ELSE "Motor: OFF",
      directionButton |-> IF ms.direction = "forward" THEN "Forward" ELSE "Reverse",
      directionStatus |-> IF ms.direction = "forward" THEN "Direction: FORWARD"
                                                      ELSE "Direction: REVERSE",
      connectButton   |-> IF conn THEN "Disconnect" ELSE "Connect to MQTT" ]

\* updateConnectionStatus: the indicator's 'connected' class and its text.
UpdateConnectionStatus(s) ==
    IF s = "connected"  THEN [connected |-> TRUE,  text |-> "Connected"] ELSE
    IF s = "connecting" THEN [connected |-> FALSE, text |-> "Connecting..."] ELSE
    IF s = "error"      THEN [connected |-> FALSE, text |-> "Connection Error"]
                        ELSE [connected |-> FALSE, text |-> "Disconnected"]

\* A log line: addLogEntry prefixes the time of day, clearLog's line has none.
LogLine(message) == [stamped |-> TRUE, text |-> message]
ClearedLine == [stamped |-> FALSE, text |-> <<"Log cleared">>]

\* Mutant of AddLogEntry: the cap compared one too high.
AddLogEntryOffByOne(lg, message) ==
    LET entries == Append(lg, [stamped |-> TRUE, text |-> message])
    IN  IF Len(entries) > 51 THEN Tail(entries) ELSE entries

\* Mutant of AddLogEntry: the newest entry removed instead of the oldest.
AddLogEntryEvictsNewest(lg, message) ==
    LET entries == Append(lg, [stamped |-> TRUE, text |-> message])
    IN  IF Len(entries) > 50 THEN SubSeq(entries, 1, 50) ELSE entries

\* addLogEntry: append, then drop entries[0] when more than 50 are left.
AddLogEntry(lg, message) ==
    LET entries == Append(lg, LogLine(message))
    IN  IF Len(entries) > LogCap THEN Tail(entries) ELSE entries

\* JSON.stringify of the published object: its key/value pairs in order
\* (the timestamp's value is the time of the call).
JSONStringify(ms) ==
    << <<"isOn", ms.isOn>>, <<"speed", ms.speed>>,
       <<"direction", ms.direction>>, <<"timestamp", "now">> >>

\* publishMotorState: the Paho calls it issues; none without a handle or
\* when not connected.
PublishMotorState(cl, conn, ms) ==
    IF cl = NullClient \/ ~conn THEN <<>>
    ELSE << [ op |-> "publish", handle |-> cl, topic |-> MotorTopic,
              payload |-> JSONStringify(ms), qos |-> 0, retained |-> FALSE ] >>

\* Paho's publish and subscribe throw an invalid-state error on a handle
\* that is not connected.
Throws(cs, sess) ==
    \E i \in 1..Len(cs) :
        cs[i].op \in {"publish", "subscribe"} /\ sess[cs[i].handle] # "connected"

\* ----------------------------------------------------------------- state

\* constructor, then initialize(): updateUI and the first log line. The
\* indicator starts as the page's markup has it, 'Disconnected', the state
\* updateConnectionStatus renders for any status it does not know.
InitialMotorState == [isOn |-> FALSE, speed |-> 0, direction |-> "forward"]

Init ==
    /\ client = NullClient
    /\ isConnected = FALSE
    /\ motorState = InitialMotorState
    /\ status = UpdateConnectionStatus("disconnected")
    /\ ui = UpdateUI(InitialMotorState, FALSE)
    /\ log = AddLogEntry(<<>>, <<"Motor Control Panel initialized">>)
    /\ sessions = [s \in SessionIds |-> "closed"]
    /\ subs = [s \in SessionIds |-> [t \in TopicSet |-> "none"]]
    /\ calls = <<>>
    /\ uncaught = FALSE
    /\ pahoLoaded \in BOOLEAN

\* --------------------------------------------------------------- mutators

\* The common tail of the three mutators: updateUI, publish when connected,
\* then the log line (skipped when publish throws).
Mutate(ms, message) ==
    LET cs == IF isConnected THEN PublishMotorState(client, isConnected, ms) ELSE <<>>
        threw == Throws(cs, sessions)
    IN  /\ motorState' = ms
        /\ ui' = UpdateUI(ms, isConnected)
        /\ calls' = cs
        /\ uncaught' = threw
        /\ log' = IF threw THEN log ELSE AddLogEntry(log, message)
        /\ UNCHANGED <<client, isConnected, status, sessions, subs, pahoLoaded>>

\* Mutant of SetSpeedState: the speed stored as given.
SetSpeedStateUnclamped(ms, speed) == [ms EXCEPT !.speed = speed]

\* What each mutator assigns to this.motorState.
SetSpeedState(ms, speed) == [ms EXCEPT !.speed = Clamp(speed)]
ToggleMotorState(ms) == [ms EXCEPT !.isOn = ~ms.isOn]
ToggleDirectionState(ms) == [ms EXCEPT !.direction = FlipDirection(ms.direction)]

SetSpeed(speed) ==
    LET ms == SetSpeedState(motorState, speed)
    IN  Mutate(ms, <<"Speed set to ", ToString(ms.speed), "%">>)

ToggleMotor ==
    LET ms == ToggleMotorState(motorState)
    IN  Mutate(ms, <<"Motor turned ", IF ms.isOn THEN "ON" ELSE "OFF">>)

ToggleDirection ==
    LET ms == ToggleDirectionState(motorState)
    IN  Mutate(ms, <<"Direction changed to ", ToUpperCase(ms.direction)>>)

\* clearLog: the pane's content becomes the single line 'Log cleared'.
ClearLog ==
    /\ log' = <<ClearedLine>>
    /\ calls' = <<>>
    /\ uncaught' = FALSE
    /\ UNCHANGED <<client, isConnected, motorState, status, ui, sessions, subs,
                   pahoLoaded>>

\* ------------------------------------------------------------- connection

\* Mutant of ParseBrokerUrl: an unknown scheme falls through to plain MQTT.
ParseBrokerUrlAnyScheme(brokerUrl) ==
    IF Len(brokerUrl) < 3
    THEN [ok |-> FALSE, error |-> "Invalid URL"]
    ELSE [ok |-> TRUE, host |-> brokerUrl[2], port |-> 1883,
          useSSL |-> Head(brokerUrl) = "wss://"]

\* The scheme branches of connect(): host, port and TLS flag, or the error
\* thrown (new URL() throws on a text that is no URL).
\* parseInt(url.port) || default: parseInt('') is NaN, which is falsy.
ParseInt(text) == IF text = "9001" THEN 9001 ELSE
                   IF text = "1883" THEN 1883 ELSE 0
PortOr(portText, default) ==
    IF portText = NoPort \/ ParseInt(portText) = 0 THEN default ELSE ParseInt(portText)
ParseBrokerUrl(brokerUrl) ==
    LET scheme == Head(brokerUrl)
        parsed(default, ssl) ==
            IF Len(brokerUrl) < 3
            THEN [ok |-> FALSE, error |-> "Invalid URL"]
            ELSE [ok |-> TRUE, host |-> brokerUrl[2],
                  port |-> PortOr(brokerUrl[3], default), useSSL |-> ssl]
    IN  IF scheme = "ws://"   THEN parsed(WsPort, FALSE) ELSE
        IF scheme = "wss://"  THEN parsed(WssPort, TRUE) ELSE
        IF scheme = "mqtt://" THEN parsed(MqttPort, FALSE)
        ELSE [ok |-> FALSE,
              error |-> "Unsupported protocol. Use ws://, wss://, or mqtt://"]

\* new Paho.Client(): a handle no live session uses.
FreeHandles == {s \in SessionIds : sessions[s] = "closed"}
NewHandle == CHOOSE s \in FreeHandles : \A r \in FreeHandles : s <= r

\* Mutant of ConnectCatch: the error is logged and the indicator left alone.
ConnectCatchLogOnly(lg, error) ==
    [ log |-> Append(lg, [stamped |-> TRUE, text |-> <<"Connection failed: ", error>>]),
      status |-> status ]

\* The catch block of connect().
ConnectCatch(lg, error) ==
    [ log |-> AddLogEntry(lg, <<"Connection failed: ", error>>),
      status |-> UpdateConnectionStatus("error") ]

\* connect(): brokerUrlText and clientIdText are the two input fields.
Connect(brokerUrlText, clientIdText) ==
    LET brokerUrl == Trim(brokerUrlText)
        clientId  == Trim(clientIdText)
    IN
    /\ uncaught' = FALSE
    /\ UNCHANGED <<isConnected, motorState, ui, subs, pahoLoaded>>
    /\ IF brokerUrl = <<>> THEN
           /\ log' = AddLogEntry(log, <<"Error: Please enter a broker URL">>)
           /\ calls' = <<>>
           /\ UNCHANGED <<client, status, sessions>>
       ELSE IF clientId = <<>> THEN
           /\ log' = AddLogEntry(log, <<"Error: Please enter a client ID">>)
           /\ calls' = <<>>
           /\ UNCHANGED <<client, status, sessions>>
       ELSE IF ~pahoLoaded THEN
           LET c == ConnectCatch(log, "Paho MQTT library not loaded")
           IN  /\ log' = c.log
               /\ status' = c.status
               /\ calls' = <<>>
               /\ UNCHANGED <<client, sessions>>
       ELSE
           LET log1 == AddLogEntry(log, <<"Connecting to MQTT broker: ", brokerUrl>>)
               url  == ParseBrokerUrl(brokerUrl)
           IN  IF ~url.ok THEN
                   LET c == ConnectCatch(log1, url.error)
                   IN  /\ log' = c.log
                       /\ status' = c.status
                       /\ calls' = <<>>
                       /\ UNCHANGED <<client, sessions>>
               ELSE
                   /\ FreeHandles # {}
                   /\ client' = NewHandle
                   /\ sessions' = [sessions EXCEPT ![NewHandle] = "connecting"]
                   /\ calls' = << [ op |-> "connect", handle |-> NewHandle,
                                    host |-> url.host, port |-> url.port,
                                    clientId |-> clientId, useSSL |-> url.useSSL ] >>
                   /\ log' = log1
                   /\ status' = UpdateConnectionStatus("connecting")

\* disconnect(): Paho's disconnect throws an invalid-state error on a handle
\* that has no socket left, before anything is reset; otherwise the handle
\* is closed and dropped.
Disconnect ==
    IF client # NullClient /\ isConnected /\ sessions[client] = "closed" THEN
        /\ calls' = << [op |-> "disconnect", handle |-> client] >>
        /\ uncaught' = TRUE
        /\ UNCHANGED <<client, isConnected, motorState, status, ui, log, sessions,
                       subs, pahoLoaded>>
    ELSE
        /\ IF client # NullClient /\ isConnected THEN
               /\ calls' = << [op |-> "disconnect", handle |-> client] >>
               /\ sessions' = [sessions EXCEPT ![client] = "closed"]
               /\ subs' = [subs EXCEPT ![client] = [t \in TopicSet |-> "none"]]
               /\ client' = NullClient
           ELSE
               /\ calls' = <<>>
               /\ UNCHANGED <<client, sessions, subs>>
        /\ isConnected' = FALSE
        /\ status' = UpdateConnectionStatus("disconnected")
        /\ log' = AddLogEntry(log, <<"Disconnected from MQTT broker">>)
        /\ uncaught' = FALSE
        /\ UNCHANGED <<motorState, ui, pahoLoaded>>

\* The connect button's click listener.
ClickConnectButton(brokerUrlText, clientIdText) ==
    IF isConnected THEN Disconnect ELSE Connect(brokerUrlText, clientIdText)

\* The Enter key in the broker URL or client ID field.
EnterKey(brokerUrlText, clientIdText) == Connect(brokerUrlText, clientIdText)

\* subscribeToTopics: one subscribe per topic on this.client; the forEach
\* ends at the first call that throws.
SubscribeToTopics(cl, conn, sess) ==
    IF cl = NullClient \/ ~conn THEN <<>>
    ELSE LET all == [i \in 1..Len(Topics) |->
                        [op |-> "subscribe", handle |-> cl, topic |-> Topics[i]]]
         IN  IF sess[cl] = "connected" THEN all ELSE SubSeq(all, 1, 1)

\* onSuccess of client.connect, for the session s that asked for it.
ConnectSuccess(s) ==
    /\ sessions[s] = "connecting"
    /\ LET sess1 == [sessions EXCEPT ![s] = "connected"]
           subCalls == SubscribeToTopics(client, TRUE, sess1)
           threw == Throws(subCalls, sess1)
           pubCalls == IF threw THEN <<>>
                       ELSE PublishMotorState(client, TRUE, motorState)
       IN  /\ sessions' = sess1
           /\ isConnected' = TRUE
           /\ status' = UpdateConnectionStatus("connected")
           /\ log' = AddLogEntry(log, <<"Successfully connected to MQTT broker">>)
           /\ calls' = subCalls \o pubCalls
           /\ uncaught' = threw
           /\ subs' = IF threw \/ subCalls = <<>> THEN subs
                      ELSE [subs EXCEPT ![client] = [t \in TopicSet |-> "pending"]]
    /\ UNCHANGED <<client, motorState, ui, pahoLoaded>>

\* onFailure of client.connect.
ConnectFailure(s) ==
    /\ sessions[s] = "connecting"
    /\ sessions' = [sessions EXCEPT ![s] = "closed"]
    /\ log' = AddLogEntry(log, <<"Connection failed: ", ErrorMessage>>)
    /\ status' = UpdateConnectionStatus("error")
    /\ calls' = <<>>
    /\ uncaught' = FALSE
    /\ UNCHANGED <<client, isConnected, motorState, ui, subs, pahoLoaded>>

\* client.onConnectionLost.
ConnectionLost(s) ==
    /\ sessions[s] = "connected"
    /\ sessions' = [sessions EXCEPT ![s] = "closed"]
    /\ subs' = [subs EXCEPT ![s] = [t \in TopicSet |-> "none"]]
    /\ isConnected' = FALSE
    /\ status' = UpdateConnectionStatus("disconnected")
    /\ log' = AddLogEntry(log, <<"Connection lost: ", ErrorMessage>>)
    /\ calls' = <<>>
    /\ uncaught' = FALSE
    /\ UNCHANGED <<client, motorState, ui, pahoLoaded>>

\* onSuccess / onFailure of client.subscribe.
SubscribeSuccess(s, topic) ==
    /\ subs[s][topic] = "pending"
    /\ subs' = [subs EXCEPT ![s][topic] = "granted"]
    /\ log' = AddLogEntry(log, <<"Subscribed to topic: ", topic>>)
    /\ calls' = <<>>
    /\ uncaught' = FALSE
    /\ UNCHANGED <<client, isConnected, motorState, status, ui, sessions, pahoLoaded>>

SubscribeFailure(s, topic) ==
    /\ subs[s][topic] = "pending"
    /\ subs' = [subs EXCEPT ![s][topic] = "none"]
    /\ log' = AddLogEntry(log, <<"Failed to subscribe to ", topic, ": ", ErrorMessage>>)
    /\ calls' = <<>>
    /\ uncaught' = FALSE
    /\ UNCHANGED <<client, isConnected, motorState, status, ui, sessions, pahoLoaded>>

\* -------------------------------------------------------- incoming messages

\* JSON.parse on the payloads of Payloads: the value, or a SyntaxError.
JSONParse(text) ==
    IF text = "{\"message\":\"ok\"}" THEN [ok |-> TRUE, type |-> "object", message |-> "ok"] ELSE
    IF text = "{\"isOn\":true}" THEN [ok |-> TRUE, type |-> "object", message |-> "undefined"] ELSE
    IF text = "null" THEN [ok |-> TRUE, type |-> "null", message |-> "undefined"]
    ELSE [ok |-> FALSE, type |-> "SyntaxError", message |-> "undefined"]

\* The catch block of handleIncomingMessage, also its default case.
ReceivedLine(topic, message) == <<"Received on ", topic, ": ", message>>

\* Mutant of HandleIncomingMessage: the catch block logs the topic only.
HandleIncomingMessageDropsRaw(topic, message) ==
    [line |-> <<"Received on ", topic>>, threw |-> FALSE]

\* handleIncomingMessage: the line it logs, and whether an exception
\* leaves it. data.message on null throws a TypeError inside the try.
HandleIncomingMessage(topic, message) ==
    LET data == JSONParse(message)
    IN  IF ~data.ok THEN [line |-> ReceivedLine(topic, message), threw |-> FALSE]
        ELSE IF topic \in {StatusTopic, LogTopic} /\ data.type = "null"
             THEN [line |-> ReceivedLine(topic, message), threw |-> FALSE]
        ELSE IF topic = StatusTopic
             THEN [line |-> <<"Status update: ", data.message>>, threw |-> FALSE]
        ELSE IF topic = LogTopic
             THEN [line |-> <<"Motor log: ", data.message>>, threw |-> FALSE]
        ELSE [line |-> ReceivedLine(topic, message), threw |-> FALSE]

\* Mutant of MessageArrived: a message on the motor topic switches the motor
\* on.
MessageArrivedAppliesState(s, topic, message) ==
    /\ sessions[s] = "connected"
    /\ subs[s][topic] = "granted"
    /\ log' = Append(log, [stamped |-> TRUE,
                           text |-> <<"Received on ", topic, ": ", message>>])
    /\ motorState' = IF topic = "akuri/motor/control"
                     THEN [motorState EXCEPT !.isOn = TRUE] ELSE motorState
    /\ calls' = <<>>
    /\ uncaught' = FALSE
    /\ UNCHANGED <<client, isConnected, status, ui, sessions, subs, pahoLoaded>>

\* client.onMessageArrived of a session subscribed to the topic.
MessageArrived(s, topic, message) ==
    /\ sessions[s] = "connected"
    /\ subs[s][topic] = "granted"
    /\ LET r == HandleIncomingMessage(topic, message)
       IN  /\ log' = AddLogEntry(log, r.line)
           /\ uncaught' = r.threw
    /\ calls' = <<>>
    /\ UNCHANGED <<client, isConnected, motorState, status, ui, sessions, subs,
                   pahoLoaded>>

\* ------------------------------------------------------------ specification

\* Spec starts no handler while the log pane is full to MaxLog.
LogRoom == Len(log) < MaxLog

Next ==
    \/ LogRoom /\ \E u \in BrokerUrls, c \in ClientIds : ClickConnectButton(u, c)
    \/ LogRoom /\ \E u \in BrokerUrls, c \in ClientIds : EnterKey(u, c)
    \/ LogRoom /\ \E n \in SpeedInputs : SetSpeed(n)
    \/ LogRoom /\ ToggleMotor
    \/ LogRoom /\ ToggleDirection
    \/ ClearLog
    \/ LogRoom /\ \E s \in SessionIds : ConnectSuccess(s)
    \/ LogRoom /\ \E s \in SessionIds : ConnectFailure(s)
    \/ LogRoom /\ \E s \in SessionIds : ConnectionLost(s)
    \/ LogRoom /\ \E s \in SessionIds, t \in TopicSet : SubscribeSuccess(s, t)
    \/ LogRoom /\ \E s \in SessionIds, t \in TopicSet : SubscribeFailure(s, t)
    \/ LogRoom /\ \E s \in SessionIds, t \in TopicSet, m \in Payloads :
           MessageArrived(s, t, m)

Spec == Init /\ [][Next]_vars


\* connect() and its callbacks alone: every input of connect() through the
\* button and the Enter key, and the three connect callbacks, so that
\* several connect() calls and their callbacks interleave.
ConnectRoom == Len(log) < MaxConnectLog

NextConnect ==
    \/ ConnectRoom /\ \E u \in BrokerUrls, c \in ClientIds : ClickConnectButton(u, c)
    \/ ConnectRoom /\ \E u \in BrokerUrls, c \in ClientIds : EnterKey(u, c)
    \/ ClearLog
    \/ ConnectRoom /\ \E s \in SessionIds : ConnectSuccess(s)
    \/ ConnectRoom /\ \E s \in SessionIds : ConnectFailure(s)
    \/ ConnectRoom /\ \E s \in SessionIds : ConnectionLost(s)

SpecConnect == Init /\ [][NextConnect]_vars

\* The mutators in every connection state: the three mutators, the connect
\* button with a well-formed broker URL and client ID, and the connect
\* callbacks.
SampleUrl == <<"ws://", "broker", "9001">>
SampleId == <<"web-1">>
MotorRoom == Len(log) < MaxMotorLog

NextMotor ==
    \/ MotorRoom /\ \E n \in SpeedInputs : SetSpeed(n)
    \/ MotorRoom /\ ToggleMotor
    \/ MotorRoom /\ ToggleDirection
    \/ ClearLog
    \/ MotorRoom /\ ClickConnectButton(SampleUrl, SampleId)
    \/ MotorRoom /\ \E s \in SessionIds : ConnectSuccess(s)
    \/ MotorRoom /\ \E s \in SessionIds : ConnectFailure(s)
    \/ MotorRoom /\ \E s \in SessionIds : ConnectionLost(s)

SpecMotor == Init /\ [][NextMotor]_vars

\* The log pane filled to its cap: the power button pressed over and over
\* (its lines alternate ON and OFF) and the log cleared, with no bound on
\* the number of entries but the one addLogEntry keeps.
NextLog ==
    \/ ToggleMotor
    \/ ClearLog

SpecLog == Init /\ [][NextLog]_vars


\* ------------------------------------------------------------------ claims

LastLine == log[Len(log)]
MutatorStep == ToggleMotor \/ ToggleDirection \/ \E n \in SpeedInputs : SetSpeed(n)
IsPublishOf(call, ms) ==
    /\ call.op = "publish"
    /\ call.topic = MotorTopic
    /\ call.payload[1] = <<"isOn", ms.isOn>>
    /\ call.payload[2] = <<"speed", ms.speed>>
    /\ call.payload[3] = <<"direction", ms.direction>>

\* C1: a mutator publishes a state message if and only if the controller is
\* connected when it is called, and then exactly one, on the motor topic,
\* carrying the state after the mutation.
C1_MutatorPublishesIffConnected ==
    [][MutatorStep =>
          IF isConnected
          THEN Len(calls') = 1 /\ IsPublishOf(calls'[1], motorState')
          ELSE calls' = <<>>]_vars

\* C2: when a session reports success the controller becomes connected,
\* then subscribes to the motor, status and log topics, then publishes the
\* current MotorState once, in that order.
C2_SuccessSubscribesThenPublishes ==
    [][\A s \in SessionIds :
          ConnectSuccess(s) =>
              /\ isConnected' /\ status'.text = "Connected"
              /\ Len(calls') = Len(Topics) + 1
              /\ \A i \in 1..Len(Topics) :
                     calls'[i].op = "subscribe" /\ calls'[i].topic = Topics[i]
              /\ IsPublishOf(calls'[Len(Topics) + 1], motorState)]_vars

\* C3: connect() with a non-empty broker URL of an unsupported scheme fails:
\* it creates no session (so no callback of that call can follow), adds a
\* log line and does not make the controller connected.
UnsupportedUrls ==
    {u \in BrokerUrls :
        Trim(u) # <<>> /\ Head(Trim(u)) \notin {"ws://", "wss://", "mqtt://"}}
C3_UnsupportedSchemeFails ==
    [][\A u \in UnsupportedUrls, c \in ClientIds :
          Connect(u, c) =>
              /\ sessions' = sessions /\ client' = client /\ calls' = <<>>
              /\ Len(log') > Len(log)
              /\ isConnected' = isConnected
              /\ status'.text = "Connected" => status.text = "Connected"]_vars
C3_Witness ==
    /\ LastLine.text = <<"Connection failed: ",
                         "Unsupported protocol. Use ws://, wss://, or mqtt://">>
    /\ status.text = "Connection Error"
    /\ \E s \in SessionIds : sessions[s] = "connecting"

MissingInput(u, c) == Trim(u) = <<>> \/ Trim(c) = <<>>
MissingInputStep ==
    \E u \in BrokerUrls, c \in ClientIds : MissingInput(u, c) /\ Connect(u, c)
UnsupportedStep ==
    \E u \in UnsupportedUrls, c \in ClientIds : ~MissingInput(u, c) /\ Connect(u, c)
ConnectFailureStep == \E s \in SessionIds : ConnectFailure(s)
ConnectionLostStep == \E s \in SessionIds : ConnectionLost(s)

\* C4 as stated: every failure kind (missing input, unsupported scheme,
\* session connect failure, connection lost) is handled without an exception
\* escaping and produces a new log line and a change of the status indicator.
C4_EveryFailureChangesIndicator ==
    [][(MissingInputStep \/ UnsupportedStep \/ ConnectFailureStep
            \/ ConnectionLostStep) =>
          ~uncaught' /\ Len(log') > Len(log) /\ status' # status]_vars

\* C4 amended: every failure kind is handled without an exception escaping
\* and produces a new log line; an unsupported scheme and a session connect
\* failure set the indicator to 'Connection Error', a lost connection sets
\* it to 'Disconnected', and a missing broker URL or client ID leaves the
\* indicator as it was.
C4_FailuresLoggedAndShown ==
    [][/\ MissingInputStep =>
              ~uncaught' /\ Len(log') > Len(log) /\ status' = status
       /\ UnsupportedStep =>
              /\ ~uncaught' /\ Len(log') > Len(log)
              /\ status' = [connected |-> FALSE, text |-> "Connection Error"]
       /\ ConnectFailureStep =>
              /\ ~uncaught' /\ Len(log') > Len(log)
              /\ status' = [connected |-> FALSE, text |-> "Connection Error"]
       /\ ConnectionLostStep =>
              /\ ~uncaught' /\ Len(log') > Len(log)
              /\ status' = [connected |-> FALSE, text |-> "Disconnected"]]_vars
C4_Witness ==
    /\ LastLine.text = <<"Error: Please enter a broker URL">>
    /\ status.text = "Connecting..."

\* C5: the log pane never holds more than 50 entries.
C5_LogAtMostCap == Len(log) <= 50
C5_Witness ==
    /\ Len(log) = 50
    /\ log[1].stamped /\ log[1].text[1] = "Motor turned "

\* C6: an entry appended to a log of 50 entries evicts exactly the oldest:
\* the result is the former entries 2..50 in order, then the new entry.
C6_OldestEvictedFirst ==
    [][(Len(log) = 50 /\ ToggleMotor) =>
          /\ Len(log') = 50
          /\ \A i \in 1..49 : log'[i] = log[i + 1]
          /\ log'[50].text =
                 <<"Motor turned ", IF motorState.isOn THEN "OFF" ELSE "ON">>]_vars
C6_Witness ==
    /\ Len(log) = 50
    /\ log[1].text = <<"Motor turned ", "OFF">>
    /\ log[49].text = <<"Motor turned ", "OFF">>
    /\ LastLine.text = <<"Motor turned ", "ON">>

\* C7: setSpeed(n) sets the speed to max(0, min(100, n)) whatever the
\* connection state, and leaves isOn and direction alone.
C7_SetSpeedClamps ==
    [][\A n \in SpeedInputs :
          SetSpeed(n) =>
              /\ motorState'.speed = IF n < 0 THEN 0 ELSE IF n > 100 THEN 100 ELSE n
              /\ motorState'.isOn = motorState.isOn
              /\ motorState'.direction = motorState.direction]_vars
C7_Witness ==
    /\ LastLine.text = <<"Speed set to ", "0", "%">>
    /\ motorState.speed = 0
    /\ Len(log) > 2 /\ log[Len(log) - 1].text = <<"Speed set to ", "100", "%">>
    /\ isConnected

\* C8: toggleMotor called twice in succession, and toggleDirection called
\* twice in succession, give back the MotorState before the first call:
\* after a call, what the next call assigns is the state before it.
C8_TogglesAreInvolutions ==
    [][/\ ToggleMotor => ToggleMotorState(motorState') = motorState
       /\ ToggleDirection => ToggleDirectionState(motorState') = motorState]_vars
C8_Witness ==
    /\ Len(log) > 2
    /\ log[Len(log) - 1].text = <<"Direction changed to ", "REVERSE">>
    /\ LastLine.text = <<"Direction changed to ", "FORWARD">>
    /\ motorState.direction = "forward"

\* C9: a payload that is not valid JSON, on any subscribed topic, makes
\* handleIncomingMessage append exactly one log entry, which contains the
\* raw payload, and throw nothing.
InvalidPayloads == {"not json"}
Contains(line, piece) == \E i \in 1..Len(line) : line[i] = piece
C9_MalformedPayloadLoggedRaw ==
    [][\A s \in SessionIds, t \in TopicSet, m \in InvalidPayloads :
          MessageArrived(s, t, m) =>
              /\ ~uncaught'
              /\ Len(log') = Len(log) + 1
              /\ SubSeq(log', 1, Len(log)) = log
              /\ Contains(log'[Len(log')].text, m)]_vars
C9_Witness ==
    LastLine.text = <<"Received on ", "akuri/motor/status", ": ", "not json">>

\* C10: MotorState changes only in setSpeed, toggleMotor and
\* toggleDirection; connect, disconnect, incoming messages (on the motor
\* topic too), clearLog and the session callbacks leave it alone.
C10_OnlyMutatorsChangeMotorState ==
    [][motorState' # motorState => MutatorStep]_vars
C10_Witness ==
    /\ LastLine.text = <<"Received on ", "akuri/motor/control", ": ", "{\"isOn\":true}">>
    /\ motorState.isOn = FALSE

\* Lines of the log that tell which handler ran: the line of a session's
\* connect failure or connection loss, the line of disconnect(), and the
\* lines connect() writes (every connect() call writes at least one).
FailureOrLossLine(l) ==
    \/ l.text = <<"Connection failed: ", ErrorMessage>>
    \/ l.text = <<"Connection lost: ", ErrorMessage>>
DisconnectLine(l) == l.text = <<"Disconnected from MQTT broker">>
ConnectLine(l) ==
    \/ l.text[1] \in {"Error: Please enter a broker URL",
                      "Error: Please enter a client ID",
                      "Connecting to MQTT broker: "}
    \/ l.text[1] = "Connection failed: " /\ l.text[2] # ErrorMessage
NoConnectSince(i) == \A j \in (i + 1)..Len(log) : ~ConnectLine(log[j])
AfterFailureOrLoss ==
    \E i \in 1..Len(log) : FailureOrLossLine(log[i]) /\ NoConnectSince(i)
AfterDisconnect ==
    \E i \in 1..Len(log) : DisconnectLine(log[i]) /\ NoConnectSince(i)

\* C11: no automatic retry or reconnect: a session connect failure or a
\* connection-lost callback opens no new session, and once one has run
\* the controller does not become connected again before the user invokes
\* connect().
C11_NoReconnectWithoutConnect ==
    [][/\ (ConnectFailureStep \/ ConnectionLostStep) =>
              /\ calls' = <<>> /\ client' = client
              /\ \A s \in SessionIds :
                     sessions'[s] = "connecting" => sessions[s] = "connecting"
       /\ (AfterFailureOrLoss /\ ~isConnected) => ~isConnected']_vars

\* C12: after any call to disconnect() the controller holds no session
\* handle, is not connected, and the status indicator shows disconnected.
C12_DisconnectResets ==
    [][Disconnect =>
          /\ client' = NullClient
          /\ ~isConnected'
          /\ status' = [connected |-> FALSE, text |-> "Disconnected"]]_vars

\* C13: in every reachable state MotorState is well-typed: isOn is a
\* boolean, speed is an integer in 0..100, direction is forward or reverse.
C13_MotorStateWellTyped ==
    /\ DOMAIN motorState = {"isOn", "speed", "direction"}
    /\ motorState.isOn \in BOOLEAN
    /\ motorState.speed \in 0..100
    /\ motorState.direction \in {"forward", "reverse"}
C13_Witness ==
    /\ motorState = [isOn |-> TRUE, speed |-> 100, direction |-> "reverse"]
    /\ LastLine.text = <<"Speed set to ", "100", "%">>
    /\ isConnected

\* C14: when a session's connect attempt reports failure the indicator
\* shows the error state, a log line with the reason is added, and the
\* controller is not connected afterwards.
C14_FailureLeavesNotConnected ==
    [][ConnectFailureStep =>
          /\ status'.text = "Connection Error"
          /\ Len(log') = Len(log) + 1
          /\ log'[Len(log')].text = <<"Connection failed: ", ErrorMessage>>
          /\ ~isConnected']_vars

\* C15: in every reachable state the status indicator shows connected if
\* and only if the isConnected flag is true.
C15_IndicatorAgreesWithFlag ==
    /\ status.connected <=> isConnected
    /\ status.text = "Connected" <=> isConnected

\* C16: every subscribe and every publish is issued on a session handle
\* that has completed its connect and has not been lost or failed.
C16_CallsOnConnectedHandle ==
    \A i \in 1..Len(calls) :
        calls[i].op \in {"subscribe", "publish"} =>
            sessions[calls[i].handle] = "connected"

\* C17: at most one session is open or opening at any time, so callbacks
\* of a superseded session never change the connection state or the log.
OpenSessions == {s \in SessionIds : sessions[s] # "closed"}
C17_AtMostOneOpenSession == Cardinality(OpenSessions) <= 1

\* C18: after disconnect() returns the controller stays not connected
\* until the next connect() call.
C18_StaysDisconnected ==
    [][(AfterDisconnect /\ ~isConnected) => ~isConnected']_vars

\* C19: after every operation and callback the connect/disconnect button
\* reads 'Disconnect' exactly when isConnected is true and 'Connect to
\* MQTT' otherwise.
C19_ButtonLabelAgreesWithFlag ==
    ui.connectButton = IF isConnected THEN "Disconnect" ELSE "Connect to MQTT"

\* C20: in every reachable state isConnected implies that the session
\* handle (client) is non-null.
C20_ConnectedHasClient == isConnected => client # NullClient

====
